---- MODULE Spec2Model ----
(***************************************************************************)
(* A model of orion.go: the typed attribute set (Attributes), its wire     *)
(* codec (toWire / toAttributes) and the broker client (Server) with its   *)
(* pagination driver (AllEntitiesByType).                                  *)
(*                                                                         *)
(* Go strings are sequences of one-character strings, so that formatting   *)
(* and parsing are computed character by character.  An int64 is a sign    *)
(* and a magnitude held in three limbs of seven decimal digits, so that    *)
(* the whole 64-bit range, its two extremes included, is representable.    *)
(***************************************************************************)
EXTENDS Integers, Sequences, FiniteSets, TLC

VARIABLES values, origin, ret, pc, etype, page, output, wire, result

vars == <<values, origin, ret, pc, etype, page, output, wire, result>>

(***************************************************************************)
(* Bounds of the model.                                                    *)
(***************************************************************************)
\* the broker serves non-empty pages only at cursors below MaxPages
MaxPages == 3

(***************************************************************************)
(* Decimal strings and 64-bit integers (package strconv).                  *)
(***************************************************************************)
\* a limb holds seven decimal digits
Base == 10 ^ 7

DigitChars == <<"0", "1", "2", "3", "4", "5", "6", "7", "8", "9">>

IsDigit(c) == \E d \in 1..10 : DigitChars[d] = c

DigitVal(c) == (CHOOSE d \in 1..10 : DigitChars[d] = c) - 1

ZeroMag == <<0, 0, 0>>

\* 2^63 = 9223372036854775808
TwoTo63 == <<92233, 7203685, 4775808>>

I64(neg, hi, mid, lo) == [neg |-> neg, mag |-> <<hi, mid, lo>>]

ZeroInt == I64(FALSE, 0, 0, 0)
MaxInt64 == I64(FALSE, 92233, 7203685, 4775807)
MinInt64 == I64(TRUE, 92233, 7203685, 4775808)

\* m1 < m2 on magnitudes
MagLess(m1, m2) ==
    \/ m1[1] < m2[1]
    \/ m1[1] = m2[1] /\ m1[2] < m2[2]
    \/ m1[1] = m2[1] /\ m1[2] = m2[2] /\ m1[3] < m2[3]

RECURSIVE Digits(_)
\* the decimal digits of a natural number below Base, without padding
Digits(n) ==
    IF n < 10 THEN <<DigitChars[n + 1]>>
    ELSE Digits(n \div 10) \o <<DigitChars[(n % 10) + 1]>>

RECURSIVE Zeros(_)
Zeros(k) == IF k <= 0 THEN <<>> ELSE <<"0">> \o Zeros(k - 1)

\* a lower limb: its digits padded with zeros to the limb's width
Padded(n) == Zeros(Len(Digits(Base - 1)) - Len(Digits(n))) \o Digits(n)

FormatMag(m) ==
    IF m[1] > 0 THEN Digits(m[1]) \o Padded(m[2]) \o Padded(m[3])
    ELSE IF m[2] > 0 THEN Digits(m[2]) \o Padded(m[3])
    ELSE Digits(m[3])

\* strconv.FormatInt(i, 10)
FormatInt(i) == (IF i.neg THEN <<"-">> ELSE <<>>) \o FormatMag(i.mag)

\* one step of the digit loop of strconv.ParseUint: n*10 + d, over stays
\* set once the accumulator leaves the representable magnitudes
MulAdd(acc, d) ==
    LET lo  == acc.mag[3] * 10 + d
        mid == acc.mag[2] * 10 + (lo \div Base)
        hi  == acc.mag[1] * 10 + (mid \div Base)
    IN  IF acc.over \/ hi >= Base
        THEN [mag |-> ZeroMag, over |-> TRUE]
        ELSE [mag |-> <<hi, mid % Base, lo % Base>>, over |-> FALSE]

RECURSIVE ParseDigits(_, _)
\* the digit loop: syntax fails on the first character that is no digit
ParseDigits(s, acc) ==
    IF s = <<>> THEN [syntax |-> TRUE, mag |-> acc.mag, over |-> acc.over]
    ELSE IF ~IsDigit(Head(s)) THEN [syntax |-> FALSE, mag |-> ZeroMag, over |-> FALSE]
    ELSE ParseDigits(Tail(s), MulAdd(acc, DigitVal(Head(s))))

\* strconv.ParseInt(s, 10, 64): [ok, int]; ok is FALSE on a syntax error
\* (empty string, lone sign, a character that is no digit) and on a range
\* error (a value outside -2^63 .. 2^63-1)
ParseInt(s) ==
    LET signed == s # <<>> /\ Head(s) \in {"+", "-"}
        neg    == s # <<>> /\ Head(s) = "-"
        body   == IF signed THEN Tail(s) ELSE s
        p      == ParseDigits(body, [mag |-> ZeroMag, over |-> FALSE])
        fits   == IF neg THEN ~MagLess(TwoTo63, p.mag) ELSE MagLess(p.mag, TwoTo63)
    IN  IF body = <<>> \/ ~p.syntax \/ p.over \/ ~fits
        THEN [ok |-> FALSE, int |-> ZeroInt]
        ELSE [ok |-> TRUE, int |-> [neg |-> neg /\ p.mag # ZeroMag, mag |-> p.mag]]

(***************************************************************************)
(* Floating point values.  The model carries the floats that are a whole   *)
(* number of quarters with an integer part below 10^9: they are exact as   *)
(* float32 and as float64, and their shortest decimal form is their exact  *)
(* decimal expansion.  Any other float a parse produces is kept as a value *)
(* marked inexact (its digits are not tracked).  The strings of the model  *)
(* carry no exponent part and none of the words inf, infinity, nan.        *)
(***************************************************************************)
Flt(neg, ip, fq) == [neg |-> neg, ip |-> ip, fq |-> fq, inexact |-> FALSE]

ZeroFloat == Flt(FALSE, 0, 0)

Untracked(neg) == [neg |-> neg, ip |-> 0, fq |-> 0, inexact |-> TRUE]

FracChars == <<<<>>, <<".", "2", "5">>, <<".", "5">>, <<".", "7", "5">>>>

\* strconv.FormatFloat(f, 'f', -1, bits): the shortest decimal that reads back as f
FormatFloat(f) ==
    (IF f.neg THEN <<"-">> ELSE <<>>) \o Digits(f.ip) \o FracChars[f.fq + 1]

RECURSIVE TakeDigits(_)
TakeDigits(s) ==
    IF s = <<>> \/ ~IsDigit(Head(s)) THEN <<>> ELSE <<Head(s)>> \o TakeDigits(Tail(s))

RECURSIVE DropDigits(_)
DropDigits(s) ==
    IF s = <<>> \/ ~IsDigit(Head(s)) THEN s ELSE DropDigits(Tail(s))

RECURSIVE StripZeros(_)
StripZeros(s) ==
    IF s # <<>> /\ Head(s) = "0" THEN StripZeros(Tail(s)) ELSE s

RECURSIVE NatOf(_)
\* the value of at most nine digits
NatOf(s) == IF s = <<>> THEN 0 ELSE NatOf(SubSeq(s, 1, Len(s) - 1)) * 10 + DigitVal(s[Len(s)])

\* strconv.ParseFloat(s, 64) on sign? digits? (. digits?)?: [ok, flt]; ok is
\* FALSE on a syntax error (no digit at all, or a character left over)
ParseFloat(s) ==
    LET signed == s # <<>> /\ Head(s) \in {"+", "-"}
        neg    == s # <<>> /\ Head(s) = "-"
        body   == IF signed THEN Tail(s) ELSE s
        ipart  == TakeDigits(body)
        r1     == DropDigits(body)
        hasDot == r1 # <<>> /\ Head(r1) = "."
        fpart  == IF hasDot THEN TakeDigits(Tail(r1)) ELSE <<>>
        rest   == IF hasDot THEN DropDigits(Tail(r1)) ELSE r1
        sig    == StripZeros(ipart)
        d1     == IF Len(fpart) >= 1 THEN DigitVal(fpart[1]) ELSE 0
        d2     == IF Len(fpart) >= 2 THEN DigitVal(fpart[2]) ELSE 0
        tail0  == \A k \in 3..Len(fpart) : fpart[k] = "0"
        exact  == Len(sig) <= 9 /\ tail0 /\ (10 * d1 + d2) % 25 = 0
    IN  IF rest # <<>> \/ (ipart = <<>> /\ fpart = <<>>)
        THEN [ok |-> FALSE, flt |-> ZeroFloat]
        ELSE IF exact
        THEN [ok |-> TRUE, flt |-> Flt(neg, NatOf(sig), (10 * d1 + d2) \div 25)]
        ELSE [ok |-> TRUE, flt |-> Untracked(neg)]

(***************************************************************************)
(* Attribute and Attributes.                                               *)
(***************************************************************************)
\* type Attribute struct { Type, Value string }
Attribute(t, v) == [Type |-> t, Value |-> v]

\* the zero Attribute, what a map lookup yields for a missing key
ZeroAttribute == Attribute("", <<>>)

\* error values: nil, or an error with its text and the code and message
\* interpolated into it
Nil == [nil |-> TRUE, text |-> "", code |-> 0, message |-> ""]

Errorf(text, code, message) ==
    [nil |-> FALSE, text |-> text, code |-> code, message |-> message]

\* NewAttributes(): an empty map
NewAttributes == [k \in {} |-> ZeroAttribute]

\* self.values[name] = attr
Put(m, name, attr) == [k \in DOMAIN m \cup {name} |-> IF k = name THEN attr ELSE m[k]]

\* the dynamic types the type switch of Add has a case for
Supported == {"string", "int", "int64", "float32", "float64", "Attribute"}

\* Add with the float64 case tagged "float"
AddFloat64AsFloat(vals, name, value) ==
    LET attr ==
          CASE value.kind = "string"    -> Attribute("string", value.str)
            [] value.kind = "int"       -> Attribute("int", FormatInt(value.int))
            [] value.kind = "int64"     -> Attribute("int", FormatInt(value.int))
            [] value.kind = "float32"   -> Attribute("float", FormatFloat(value.flt))
            [] value.kind = "float64"   -> Attribute("float", FormatFloat(value.flt))
            [] value.kind = "Attribute" -> value.attr
            [] OTHER                    -> ZeroAttribute
    IN  IF value.kind \in Supported
        THEN [values |-> Put(vals, name, attr), err |-> Nil]
        ELSE [values |-> vals, err |-> Errorf("unsupported implicit type", 0, "")]

\* Attributes.Add: [values, err], the map after the call and the error returned
Add(vals, name, value) ==
    LET attr ==
          CASE value.kind = "string"    -> Attribute("string", value.str)
            [] value.kind = "int"       -> Attribute("int", FormatInt(value.int))
            [] value.kind = "int64"     -> Attribute("int", FormatInt(value.int))
            [] value.kind = "float32"   -> Attribute("float", FormatFloat(value.flt))
            [] value.kind = "float64"   -> Attribute("int", FormatFloat(value.flt))
            [] value.kind = "Attribute" -> value.attr
            [] OTHER                    -> ZeroAttribute
    IN  IF value.kind \in Supported
        THEN [values |-> Put(vals, name, attr), err |-> Nil]
        ELSE [values |-> vals, err |-> Errorf("unsupported implicit type", 0, "")]

\* Attributes.Get: the entry (the zero Attribute when absent) and the presence flag
Get(vals, name) ==
    IF name \in DOMAIN vals THEN [entry |-> vals[name], ok |-> TRUE]
    ELSE [entry |-> ZeroAttribute, ok |-> FALSE]

\* Attributes.GetString
GetString(vals, name) ==
    IF name \in DOMAIN vals THEN [str |-> vals[name].Value, ok |-> TRUE]
    ELSE [str |-> <<>>, ok |-> FALSE]

\* GetInt reporting a value that does not parse as absent
GetIntStrict(vals, name) ==
    IF name \in DOMAIN vals /\ ParseInt(vals[name].Value).ok
    THEN [int |-> ParseInt(vals[name].Value).int, ok |-> TRUE]
    ELSE [int |-> ZeroInt, ok |-> FALSE]

\* Attributes.GetInt
GetInt(vals, name) ==
    IF name \in DOMAIN vals
    THEN LET p == ParseInt(vals[name].Value)
         IN  IF ~p.ok THEN [int |-> ZeroInt, ok |-> TRUE]
             ELSE [int |-> p.int, ok |-> TRUE]
    ELSE [int |-> ZeroInt, ok |-> FALSE]

\* Attributes.GetFloat
GetFloat(vals, name) ==
    IF name \in DOMAIN vals
    THEN LET p == ParseFloat(vals[name].Value)
         IN  IF ~p.ok THEN [flt |-> ZeroFloat, ok |-> TRUE]
             ELSE [flt |-> p.flt, ok |-> TRUE]
    ELSE [flt |-> ZeroFloat, ok |-> FALSE]

\* the orders in which a range over a map with these keys can visit them
Orders(keys) ==
    {o \in [1..Cardinality(keys) -> keys] : \A i, j \in DOMAIN o : i # j => o[i] # o[j]}

\* type wireAttribute struct { Name, Type, Value string }
WireAttribute(name, t, v) == [Name |-> name, Type |-> t, Value |-> v]

\* Attributes.toWire, the map being ranged over in the given order
toWire(vals, order) ==
    [i \in 1..Len(order) |-> WireAttribute(order[i], vals[order[i]].Type, vals[order[i]].Value)]

RECURSIVE AddAll(_, _)
\* the loop of toAttributes: one Add of a typed Attribute per triple, in order
AddAll(attrs, triples) ==
    IF triples = <<>> THEN attrs
    ELSE AddAll(Add(attrs, Head(triples).Name,
                    [kind |-> "Attribute",
                     attr |-> Attribute(Head(triples).Type, Head(triples).Value)]).values,
                Tail(triples))

RECURSIVE AddAllStrings(_, _)
AddAllStrings(attrs, triples) ==
    IF triples = <<>> THEN attrs
    ELSE AddAllStrings(Add(attrs, Head(triples).Name,
                           [kind |-> "string", str |-> Head(triples).Value]).values,
                       Tail(triples))

\* toAttributes adding each value as a native string, not as a typed Attribute
toAttributesRetag(triples) == AddAllStrings(NewAttributes, triples)

\* wireAttributes.toAttributes
toAttributes(triples) == AddAll(NewAttributes, triples)

(***************************************************************************)
(* The inputs of the attribute operations.                                 *)
(***************************************************************************)
Names == {"temperature", "pressure"}

NotANumber == <<"n", "o", "t", "-", "a", "-", "n", "u", "m", "b", "e", "r">>

\* 9223372036854775808, one more than the largest int64
PastMaxInt64 == FormatMag(TwoTo63)

Strings == { <<>>, <<"-", "7">>, <<"0", "0", "7">>, NotANumber, PastMaxInt64 }

\* -42 and 10^7 as int; 10^7 and the two extremes as int64
NativeInts == { I64(TRUE, 0, 0, 42), I64(FALSE, 0, 1, 0) }

Int64s == { I64(FALSE, 0, 1, 0), MaxInt64, MinInt64 }

Floats32 == { Flt(TRUE, 1, 2) }

Floats64 == { Flt(FALSE, 0, 3) }

TypedAttributes == { Attribute("int", NotANumber), Attribute("geo:point", <<"1", ".", "5">>) }

\* the values a caller can hand to Add as interface{}, with their dynamic type
NativeValues ==
    [kind : {"string"}, str : Strings]
      \cup [kind : {"int"}, int : NativeInts]
      \cup [kind : {"int64"}, int : Int64s]
      \cup [kind : {"int32"}, int : {I64(FALSE, 0, 0, 5)}]
      \cup [kind : {"float32"}, flt : Floats32]
      \cup [kind : {"float64"}, flt : Floats64]
      \cup [kind : {"Attribute"}, attr : TypedAttributes]
      \cup [kind : {"bool"}, bool : {TRUE}]

(***************************************************************************)
(* The transport: http.NewRequest, http.DefaultClient.Do, ioutil.ReadAll   *)
(* and json.Unmarshal.  A reply is what the broker and the network make of *)
(* one request: the stage that fails (none, Do, ReadAll or Unmarshal) with *)
(* its error, or the decoded JSON body.                                    *)
(***************************************************************************)
\* limit := int64(100)
limit == 100

\* a small natural number as an int64
OfNat(n) == I64(FALSE, 0, 0, n)

\* the arguments of the calls: one well-formed, one with a malformed escape
EntityTypes == {"Room", "%zz"}

EntityIds == {"r1", "%zz"}

\* "/v1/contextEntities/type/%s/id/%s"
EntityPath(t, id) ==
    [segments |-> <<"v1", "contextEntities", "type", t, "id", id>>, query |-> <<>>]

RECURSIVE QueryEscape(_)
\* url.QueryEscape: digits and - _ . ~ pass, any other character of the model
\* is percent-encoded
QueryEscape(s) ==
    IF s = <<>> THEN <<>>
    ELSE (IF IsDigit(Head(s)) \/ Head(s) \in {"-", "_", ".", "~"}
          THEN <<Head(s)>> ELSE <<"%", "X", "X">>) \o QueryEscape(Tail(s))

\* "/v1/contextEntityTypes/%s?limit=%s&offset=%s", offset := int64(page) * limit
TypePath(t, p) ==
    [segments |-> <<"v1", "contextEntityTypes", t>>,
     query |-> <<QueryEscape(FormatInt(OfNat(limit))),
                 QueryEscape(FormatInt(OfNat(p * limit)))>>]

\* http.NewRequest parses the URL: a path segment with a malformed percent
\* escape makes it fail
Parseable(path) == \A i \in DOMAIN path.segments : path.segments[i] # "%zz"

RequestError == Errorf("parse: invalid URL escape", 0, "")

Failures ==
    { [fail |-> "Do", err |-> Errorf("dial tcp: connection refused", 0, "")],
      [fail |-> "ReadAll", err |-> Errorf("unexpected EOF", 0, "")],
      [fail |-> "Unmarshal", err |-> Errorf("invalid character", 0, "")] }

\* statusCode objects; code 0 is a body without one
Statuses ==
    { [Code |-> 200, Message |-> "OK"], [Code |-> 201, Message |-> "Created"],
      [Code |-> 404, Message |-> "No context element found"],
      [Code |-> 0, Message |-> ""] }

WireLists ==
    { <<>>,
      <<WireAttribute("temperature", "float", <<"1", ".", "5">>)>>,
      <<WireAttribute("pressure", "int", <<"0", "0", "7">>),
        WireAttribute("pressure", "int", NotANumber)>> }

\* wireAlteredContextResponse
AlteredElement(code, message) == [Code |-> code, Message |-> message, Attributes |-> <<>>]

AlteredReplies ==
    Failures \cup
    [fail : {"none"},
     Elements : { <<>>,
                  <<AlteredElement(200, "OK")>>,
                  <<AlteredElement(201, "Created")>>,
                  <<AlteredElement(0, "")>>,
                  <<AlteredElement(200, "OK"), AlteredElement(404, "Not Found")>>,
                  <<AlteredElement(404, "Not Found"), AlteredElement(200, "OK")>> }]

\* wireStatus
StatusReplies == Failures \cup [fail : {"none"}, Status : Statuses]

\* wireQueryContextElement
QueryElements ==
    { [Code |-> st.Code, Message |-> st.Message,
       ContextElement |-> [Attributes |-> w, Id |-> "r1", Type |-> "Room"]] :
      st \in Statuses, w \in WireLists }

ElementReplies == Failures \cup [fail : {"none"}, Element : QueryElements]

PageElement(id, w) ==
    [Code |-> 200, Message |-> "OK",
     ContextElement |-> [Attributes |-> w, Id |-> id, Type |-> "Room"]]

\* the bodies a page of the listing can have: empty, one entity, two entities
PageBodies ==
    { <<>>,
      <<PageElement("r1", <<WireAttribute("temperature", "float", <<"1", ".", "5">>)>>)>>,
      <<PageElement("r2", <<WireAttribute("pressure", "int", <<"0", "0", "7">>),
                            WireAttribute("pressure", "int", NotANumber)>>),
        PageElement("r3", <<>>)>> }

\* wireQueryContextResponse; the broker has entities left only at cursors
\* below MaxPages
PageReplies(p) ==
    Failures \cup
    [fail : {"none"}, Elements : IF p < MaxPages THEN PageBodies ELSE {<<>>}]

\* Server.do: the error of the first stage that fails, or nil
do(reply) ==
    IF reply.fail = "Do" THEN reply.err
    ELSE IF reply.fail = "ReadAll" THEN reply.err
    ELSE IF reply.fail = "Unmarshal" THEN reply.err
    ELSE Nil

Exchange(method, path, body, reply) ==
    [method |-> method, path |-> path, body |-> body, reply |-> reply]

\* get issuing the request a second time when the first attempt fails
getRetry(path, reply) ==
    IF ~Parseable(path) THEN [calls |-> <<>>, err |-> RequestError]
    ELSE IF ~do(reply).nil
    THEN [calls |-> <<Exchange("GET", path, <<>>, reply), Exchange("GET", path, <<>>, reply)>>,
          err |-> do(reply)]
    ELSE [calls |-> <<Exchange("GET", path, <<>>, reply)>>, err |-> Nil]

\* Server.get: [calls, err], the transport calls made and the error returned
get(path, reply) ==
    IF ~Parseable(path) THEN [calls |-> <<>>, err |-> RequestError]
    ELSE [calls |-> <<Exchange("GET", path, <<>>, reply)>>, err |-> do(reply)]

\* Server.post; json.Marshal cannot fail on a wireAttributes
post(path, body, reply) ==
    IF ~Parseable(path) THEN [calls |-> <<>>, err |-> RequestError]
    ELSE [calls |-> <<Exchange("POST", path, body, reply)>>, err |-> do(reply)]

\* Server.put
put(path, body, reply) ==
    IF ~Parseable(path) THEN [calls |-> <<>>, err |-> RequestError]
    ELSE [calls |-> <<Exchange("PUT", path, body, reply)>>, err |-> do(reply)]

\* Server.delete
delete(path, reply) ==
    IF ~Parseable(path) THEN [calls |-> <<>>, err |-> RequestError]
    ELSE [calls |-> <<Exchange("DELETE", path, <<>>, reply)>>, err |-> do(reply)]

(***************************************************************************)
(* The operations of Server.  Each yields the transport calls it made and  *)
(* how it ended: "returned" with its error value, or "panic" when the Go   *)
(* runtime aborts it.                                                      *)
(***************************************************************************)
Returned(calls, err) == [calls |-> calls, outcome |-> "returned", err |-> err]

\* Server.NewEntity; result.Elements[0] on an empty slice is a runtime panic
NewEntity(t, id, body, reply) ==
    LET r == post(EntityPath(t, id), body, reply)
    IN  IF ~r.err.nil THEN Returned(r.calls, r.err)
        ELSE IF Len(reply.Elements) = 0
        THEN [calls |-> r.calls, outcome |-> "panic", err |-> Nil]
        ELSE IF reply.Elements[1].Code # 200
        THEN Returned(r.calls, Errorf("entity creation failed", reply.Elements[1].Code,
                                      reply.Elements[1].Message))
        ELSE Returned(r.calls, Nil)

\* Server.DeleteEntity
DeleteEntity(t, id, reply) ==
    LET r == delete(EntityPath(t, id), reply)
    IN  IF ~r.err.nil THEN Returned(r.calls, r.err)
        ELSE IF reply.Status.Code # 200
        THEN Returned(r.calls, Errorf("entity deletion failed", reply.Status.Code,
                                      reply.Status.Message))
        ELSE Returned(r.calls, Nil)

\* UpdateEntity without its test of the length of result.Elements
UpdateEntityUnchecked(t, id, body, reply) ==
    LET r == put(EntityPath(t, id), body, reply)
    IN  IF ~r.err.nil THEN Returned(r.calls, r.err)
        ELSE IF Len(reply.Elements) = 0
        THEN [calls |-> r.calls, outcome |-> "panic", err |-> Nil]
        ELSE IF reply.Elements[1].Code # 200
        THEN Returned(r.calls, Errorf("entity creation failed", reply.Elements[1].Code,
                                      reply.Elements[1].Message))
        ELSE Returned(r.calls, Nil)

\* Server.UpdateEntity
UpdateEntity(t, id, body, reply) ==
    LET r == put(EntityPath(t, id), body, reply)
    IN  IF ~r.err.nil THEN Returned(r.calls, r.err)
        ELSE IF Len(reply.Elements) < 1
        THEN Returned(r.calls, Errorf("unexpected result", 0, ""))
        ELSE IF reply.Elements[1].Code # 200
        THEN Returned(r.calls, Errorf("entity creation failed", reply.Elements[1].Code,
                                      reply.Elements[1].Message))
        ELSE Returned(r.calls, Nil)

\* f(ctx.Type, ctx.Id) followed by SetAttributes
Materialize(el) ==
    [Type |-> el.ContextElement.Type, Id |-> el.ContextElement.Id,
     Attributes |-> toAttributes(el.ContextElement.Attributes)]

\* Server.EntitiesByType: [calls, output, err]
EntitiesByType(t, p, reply) ==
    LET r == get(TypePath(t, p), reply)
    IN  IF ~r.err.nil THEN [calls |-> r.calls, output |-> <<>>, err |-> r.err]
        ELSE [calls |-> r.calls,
              output |-> [i \in 1..Len(reply.Elements) |-> Materialize(reply.Elements[i])],
              err |-> Nil]

\* a cursor that does not advance
PageStay(p) == p

\* Page.Next
PageNext(p) == p + 1

\* the loop body returning nil, err on a failed fetch
AllIterationDiscard(t, p, acc, reply) ==
    LET r == EntitiesByType(t, p, reply)
    IN  IF ~r.err.nil
        THEN [calls |-> r.calls, done |-> TRUE, page |-> p, output |-> <<>>, err |-> r.err]
        ELSE IF Len(r.output) = 0
        THEN [calls |-> r.calls, done |-> TRUE, page |-> p, output |-> acc, err |-> Nil]
        ELSE [calls |-> r.calls, done |-> FALSE, page |-> p + 1,
              output |-> acc \o r.output, err |-> Nil]

\* the body of the loop of Server.AllEntitiesByType, from the cursor p and the
\* accumulator acc: [calls, done, page, output, err]; done when it returns
AllIteration(t, p, acc, reply) ==
    LET r == EntitiesByType(t, p, reply)
    IN  IF ~r.err.nil
        THEN [calls |-> r.calls, done |-> TRUE, page |-> p, output |-> acc, err |-> r.err]
        ELSE IF Len(r.output) = 0
        THEN [calls |-> r.calls, done |-> TRUE, page |-> p, output |-> acc, err |-> Nil]
        ELSE [calls |-> r.calls, done |-> FALSE, page |-> PageNext(p),
              output |-> acc \o r.output, err |-> Nil]

\* EntityById setting the attributes before it tests the status code
EntityByIdEager(t, id, attrs, reply) ==
    LET r == get(EntityPath(t, id), reply)
    IN  IF ~r.err.nil THEN [calls |-> r.calls, err |-> r.err, attrs |-> attrs]
        ELSE IF reply.Element.Code # 200
        THEN [calls |-> r.calls,
              err |-> Errorf("entity lookup failed", reply.Element.Code,
                             reply.Element.Message),
              attrs |-> toAttributes(reply.Element.ContextElement.Attributes)]
        ELSE [calls |-> r.calls, err |-> Nil,
              attrs |-> toAttributes(reply.Element.ContextElement.Attributes)]

\* Server.EntityById: [calls, err, attrs], attrs being the entity's afterwards
EntityById(t, id, attrs, reply) ==
    LET r == get(EntityPath(t, id), reply)
    IN  IF ~r.err.nil THEN [calls |-> r.calls, err |-> r.err, attrs |-> attrs]
        ELSE IF reply.Element.Code # 200
        THEN [calls |-> r.calls,
              err |-> Errorf("entity lookup failed", reply.Element.Code,
                             reply.Element.Message),
              attrs |-> attrs]
        ELSE [calls |-> r.calls, err |-> Nil,
              attrs |-> toAttributes(reply.Element.ContextElement.Attributes)]

\* CheckEntity testing the error alone
CheckEntityLoose(t, id, reply) ==
    LET r == get(EntityPath(t, id), reply)
    IN  [calls |-> r.calls, r |-> r.err.nil]

\* Server.CheckEntity: [calls, r]
CheckEntity(t, id, reply) ==
    LET r == get(EntityPath(t, id), reply)
    IN  [calls |-> r.calls, r |-> r.err.nil /\ reply.Element.Code = 200]

(***************************************************************************)
(* The state.                                                              *)
(*   values  the map of the entity's Attributes                            *)
(*   origin  history: for each name, the native value of the last Add that *)
(*           stored it                                                     *)
(*   ret     the last attribute operation and what it returned             *)
(*   pc, etype, page, output   the loop of AllEntitiesByType               *)
(*   wire    the transport calls of the current Server operation, each     *)
(*           with the broker's reply                                       *)
(*   result  the last Server operation and what it returned                *)
(***************************************************************************)
Init ==
    /\ values = NewAttributes
    /\ origin = [k \in {} |-> [kind |-> "bool", bool |-> TRUE]]
    /\ ret = [op |-> "none"]
    /\ pc = "idle"
    /\ etype = "Room"
    /\ page = 0
    /\ output = <<>>
    /\ wire = <<>>
    /\ result = [op |-> "none"]

server == <<pc, etype, page, output, wire, result>>

DoAdd(name, value) ==
    LET r == Add(values, name, value)
    IN  /\ values' = r.values
        /\ origin' = IF r.err.nil THEN Put(origin, name, value) ELSE origin
        /\ ret' = [op |-> "Add", name |-> name, arg |-> value, before |-> values,
                   err |-> r.err]
        /\ UNCHANGED server

DoGet(name) ==
    /\ ret' = [op |-> "Get", name |-> name, got |-> Get(values, name)]
    /\ UNCHANGED <<values, origin, server>>

DoGetString(name) ==
    /\ ret' = [op |-> "GetString", name |-> name, got |-> GetString(values, name)]
    /\ UNCHANGED <<values, origin, server>>

DoGetInt(name) ==
    /\ ret' = [op |-> "GetInt", name |-> name, got |-> GetInt(values, name)]
    /\ UNCHANGED <<values, origin, server>>

DoGetFloat(name) ==
    /\ ret' = [op |-> "GetFloat", name |-> name, got |-> GetFloat(values, name)]
    /\ UNCHANGED <<values, origin, server>>

\* encode with toWire, decode what was encoded with toAttributes
DoCodec(order) ==
    /\ ret' = [op |-> "codec", sent |-> toWire(values, order),
               attrs |-> toAttributes(toWire(values, order))]
    /\ UNCHANGED <<values, origin, server>>

NextAttr ==
    \/ \E name \in Names, value \in NativeValues : DoAdd(name, value)
    \/ \E name \in Names : DoGet(name)
    \/ \E name \in Names : DoGetString(name)
    \/ \E name \in Names : DoGetInt(name)
    \/ \E name \in Names : DoGetFloat(name)
    \/ \E order \in Orders(DOMAIN values) : DoCodec(order)

SpecAttr == Init /\ [][NextAttr]_vars

(***************************************************************************)
(* The Server operations as steps of one synchronous caller.  The Entity   *)
(* handed to an operation has the Attributes held in values; its Type()    *)
(* and Id() are inputs of the call.  wire restarts with every operation.   *)
(* A panic is not recovered: it ends the caller (pc = "panicked").         *)
(***************************************************************************)
attrvars == <<values, origin, ret>>

DoNewEntity(t, id, order, reply) ==
    LET r == NewEntity(t, id, toWire(values, order), reply)
    IN  /\ pc = "idle"
        /\ wire' = r.calls
        /\ result' = [op |-> "NewEntity", path |-> EntityPath(t, id),
                      outcome |-> r.outcome, err |-> r.err]
        /\ pc' = IF r.outcome = "panic" THEN "panicked" ELSE "idle"
        /\ UNCHANGED <<attrvars, etype, page, output>>

DoDeleteEntity(t, id, reply) ==
    LET r == DeleteEntity(t, id, reply)
    IN  /\ pc = "idle"
        /\ wire' = r.calls
        /\ result' = [op |-> "DeleteEntity", path |-> EntityPath(t, id),
                      outcome |-> r.outcome, err |-> r.err]
        /\ UNCHANGED <<attrvars, pc, etype, page, output>>

DoUpdateEntity(t, id, order, reply) ==
    LET r == UpdateEntity(t, id, toWire(values, order), reply)
    IN  /\ pc = "idle"
        /\ wire' = r.calls
        /\ result' = [op |-> "UpdateEntity", path |-> EntityPath(t, id),
                      outcome |-> r.outcome, err |-> r.err]
        /\ UNCHANGED <<attrvars, pc, etype, page, output>>

DoEntityById(t, id, reply) ==
    LET r == EntityById(t, id, values, reply)
    IN  /\ pc = "idle"
        /\ wire' = r.calls
        /\ values' = r.attrs
        /\ result' = [op |-> "EntityById", path |-> EntityPath(t, id),
                      outcome |-> "returned", err |-> r.err, before |-> values]
        /\ UNCHANGED <<origin, ret, pc, etype, page, output>>

DoCheckEntity(t, id, reply) ==
    LET r == CheckEntity(t, id, reply)
    IN  /\ pc = "idle"
        /\ wire' = r.calls
        /\ result' = [op |-> "CheckEntity", path |-> EntityPath(t, id),
                      outcome |-> "returned", r |-> r.r]
        /\ UNCHANGED <<attrvars, pc, etype, page, output>>

DoEntitiesByType(t, p, reply) ==
    LET r == EntitiesByType(t, p, reply)
    IN  /\ pc = "idle"
        /\ wire' = r.calls
        /\ result' = [op |-> "EntitiesByType", path |-> TypePath(t, p),
                      outcome |-> "returned", out |-> r.output, err |-> r.err]
        /\ UNCHANGED <<attrvars, pc, etype, page, output>>

\* Server.AllEntitiesByType, entry: var output []Entity; page := Page(0)
AllStart(t) ==
    /\ pc = "idle"
    /\ pc' = "loop"
    /\ etype' = t
    /\ page' = 0
    /\ output' = <<>>
    /\ wire' = <<>>
    /\ result' = [op |-> "AllEntitiesByType", outcome |-> "running"]
    /\ UNCHANGED attrvars

\* Server.AllEntitiesByType, one iteration of the loop; the locals die when
\* the call returns
AllFetch(reply) ==
    LET r == AllIteration(etype, page, output, reply)
    IN  /\ pc = "loop"
        /\ wire' = wire \o r.calls
        /\ IF r.done
           THEN /\ result' = [op |-> "AllEntitiesByType", outcome |-> "returned",
                              out |-> r.output, err |-> r.err]
                /\ pc' = "idle" /\ page' = 0 /\ output' = <<>>
           ELSE /\ output' = r.output
                /\ page' = r.page
                /\ UNCHANGED <<pc, result>>
        /\ UNCHANGED <<attrvars, etype>>

Next ==
    \/ \E t \in {"Room"}, id \in EntityIds, order \in Orders(DOMAIN values),
          reply \in AlteredReplies : DoNewEntity(t, id, order, reply)
    \/ \E t \in {"Room"}, id \in EntityIds, reply \in StatusReplies :
          DoDeleteEntity(t, id, reply)
    \/ \E t \in {"Room"}, id \in EntityIds, order \in Orders(DOMAIN values),
          reply \in AlteredReplies : DoUpdateEntity(t, id, order, reply)
    \/ \E t \in {"Room"}, id \in EntityIds, reply \in ElementReplies :
          DoEntityById(t, id, reply)
    \/ \E t \in {"Room"}, id \in EntityIds, reply \in ElementReplies :
          DoCheckEntity(t, id, reply)
    \/ \E t \in EntityTypes, p \in 0..MaxPages :
          \E reply \in PageReplies(p) : DoEntitiesByType(t, p, reply)
    \/ \E t \in EntityTypes : AllStart(t)
    \/ \E reply \in PageReplies(page) : AllFetch(reply)

Spec == Init /\ [][Next]_vars

(***************************************************************************)
(* What the operations are expected to yield, stated without the model's   *)
(* operators.                                                              *)
(***************************************************************************)
\* the attribute set a list of triples stands for: for each name, its last triple
Decoded(triples) ==
    [n \in {triples[i].Name : i \in DOMAIN triples} |->
        LET last == CHOOSE i \in DOMAIN triples :
                        /\ triples[i].Name = n
                        /\ \A j \in DOMAIN triples : j > i => triples[j].Name # n
        IN  Attribute(triples[last].Type, triples[last].Value)]

\* the decimal text of the offset of page k: k * 100
OffsetText(k) == IF k = 0 THEN <<"0">> ELSE Digits(k) \o <<"0", "0">>

\* the entities of one decoded page
EntitiesOf(reply) ==
    [i \in 1..Len(reply.Elements) |->
        [Type |-> reply.Elements[i].ContextElement.Type,
         Id |-> reply.Elements[i].ContextElement.Id,
         Attributes |-> Decoded(reply.Elements[i].ContextElement.Attributes)]]

RECURSIVE Concatenated(_)
\* the entities of the first k exchanges of wire, in page order
Concatenated(k) ==
    IF k <= 0 THEN <<>> ELSE Concatenated(k - 1) \o EntitiesOf(wire[k].reply)

NonEmptyPage(i) == wire[i].reply.fail = "none" /\ Len(wire[i].reply.Elements) > 0

ListingAll == result.op = "AllEntitiesByType"

\* the transport call of a one-call operation succeeded and its body decoded
Answered == wire # <<>> /\ wire[1].reply.fail = "none"

(***************************************************************************)
(* The claims.                                                             *)
(***************************************************************************)

\* C1: AllEntitiesByType fetches the pages 0, 1, ..., k in that order (offsets
\* 0, 100, ..., limit 100), the cursor advancing by exactly one per non-empty
\* page; no fetch follows the first empty page; when pages 0..k-1 are
\* non-empty, page k is empty and no fetch fails, it makes exactly k+1
\* fetches and returns, with no error, the entities of pages 0..k-1 in order.
PaginationInOrder ==
    ListingAll =>
      /\ \A i \in DOMAIN wire :
            /\ wire[i].method = "GET"
            /\ wire[i].path.query = <<<<"1", "0", "0">>, OffsetText(i - 1)>>
      /\ \A i \in 1..(Len(wire) - 1) : NonEmptyPage(i)
      /\ (pc = "loop") =>
            /\ page = Len(wire)
            /\ \A i \in DOMAIN wire : NonEmptyPage(i)
            /\ output = Concatenated(Len(wire))
      /\ (result.outcome = "returned" /\ result.err.nil) =>
            /\ Len(wire) >= 1
            /\ wire[Len(wire)].reply.fail = "none"
            /\ Len(wire[Len(wire)].reply.Elements) = 0
            /\ result.out = Concatenated(Len(wire) - 1)

\* two non-empty pages, then the empty one: three fetches, every entity returned
PaginationWitness ==
    /\ ListingAll /\ result.outcome = "returned" /\ result.err.nil
    /\ Len(wire) = 3
    /\ Len(result.out) = 3
    /\ result.out[1].Id # result.out[2].Id

\* C2: when the fetch of page j fails after the non-empty pages 0..j-1,
\* AllEntitiesByType makes no further fetch and returns that same error
\* together with the entities of pages 0..j-1, in order.
PartialResultsKept ==
    (ListingAll /\ result.outcome = "returned" /\ ~result.err.nil) =>
      /\ (wire = <<>>) => (result.err = RequestError /\ result.out = <<>>)
      /\ (wire # <<>>) =>
            /\ wire[Len(wire)].reply.fail # "none"
            /\ result.err = wire[Len(wire)].reply.err
            /\ \A i \in 1..(Len(wire) - 1) : NonEmptyPage(i)
            /\ result.out = Concatenated(Len(wire) - 1)

\* a fetch fails after at least one non-empty page, whose entities are returned
PartialResultsWitness ==
    /\ ListingAll /\ result.outcome = "returned" /\ ~result.err.nil
    /\ Len(wire) >= 2
    /\ Len(result.out) >= 1

\* C3: a NewEntity whose transport call and decode succeed returns: with no
\* error exactly when the response has an element and the first element's
\* code is 200, with the creation-failed error carrying code and message when
\* the first element's code is not 200, and with an error, never success,
\* when the element list is empty.
CreateAlwaysReturns ==
    (result.op = "NewEntity" /\ Answered) =>
      LET els == wire[1].reply.Elements
      IN  /\ result.outcome = "returned"
          /\ result.err.nil <=> (Len(els) >= 1 /\ els[1].Code = 200)
          /\ (Len(els) >= 1 /\ els[1].Code # 200) =>
                result.err = Errorf("entity creation failed", els[1].Code, els[1].Message)

\* C4: an UpdateEntity whose transport call and decode succeed returns the
\* unexpected-result error on an empty element list, the failed error
\* carrying code and message when the first element's code is not 200, and
\* no error exactly when the first element's code is 200; a transport or
\* decode error is returned unchanged.
UpdateStatusDecoding ==
    (result.op = "UpdateEntity") =>
      /\ result.outcome = "returned"
      /\ (wire # <<>> /\ wire[1].reply.fail # "none") => result.err = wire[1].reply.err
      /\ Answered =>
            LET els == wire[1].reply.Elements
            IN  /\ (Len(els) = 0) => result.err = Errorf("unexpected result", 0, "")
                /\ (Len(els) >= 1 /\ els[1].Code # 200) =>
                      result.err = Errorf("entity creation failed", els[1].Code,
                                          els[1].Message)
                /\ result.err.nil <=> (Len(els) >= 1 /\ els[1].Code = 200)

\* an update answered with an empty element list
UpdateEmptyWitness ==
    /\ result.op = "UpdateEntity" /\ Answered
    /\ Len(wire[1].reply.Elements) = 0
    /\ result.err.text = "unexpected result"

\* C5: EntityById sets the entity's attributes to those of the response
\* element exactly when the transport call and decode succeed and the status
\* code is 200; otherwise it returns an error and the attributes are those
\* the entity had before the call.
ReadSetsAttributesOnlyOnSuccess ==
    (result.op = "EntityById") =>
      IF Answered /\ wire[1].reply.Element.Code = 200
      THEN /\ result.err.nil
           /\ values = Decoded(wire[1].reply.Element.ContextElement.Attributes)
      ELSE /\ ~result.err.nil
           /\ values = result.before

\* a read answered 404 with attributes other than the ones the entity holds
ReadFailureWitness ==
    /\ result.op = "EntityById" /\ Answered
    /\ wire[1].reply.Element.Code = 404
    /\ DOMAIN result.before # {}
    /\ Decoded(wire[1].reply.Element.ContextElement.Attributes) # result.before
    /\ values = result.before

\* C6: CheckEntity returns a boolean and no error: true exactly when the
\* transport call and decode succeed and the status code is 200.
ExistsSwallowsFailures ==
    (result.op = "CheckEntity") =>
      /\ result.outcome = "returned"
      /\ result.r \in BOOLEAN
      /\ result.r <=> (Answered /\ wire[1].reply.Element.Code = 200)

\* a lookup whose transport call fails
ExistsFailureWitness ==
    /\ result.op = "CheckEntity"
    /\ wire # <<>> /\ wire[1].reply.fail = "Do"
    /\ result.r = FALSE

\* the operations that are one remote call
SingleCallOps ==
    {"NewEntity", "EntityById", "UpdateEntity", "DeleteEntity", "CheckEntity",
     "EntitiesByType"}

\* C10 as stated: every invocation of create, read, update, delete, exists
\* and single-page listing issues exactly one transport call.
ExactlyOneCallAlways ==
    (result.op \in SingleCallOps) => Len(wire) = 1

\* C10 as amended: such an invocation issues exactly one transport call when
\* its request can be built, whatever the call's outcome, and none when
\* http.NewRequest rejects the URL; AllEntitiesByType issues one call per page
\* it fetches, page i-1 by its i-th call.
OneCallPerBuiltRequest ==
    /\ (result.op \in SingleCallOps) =>
          Len(wire) = (IF Parseable(result.path) THEN 1 ELSE 0)
    /\ ListingAll =>
          /\ \A i \in DOMAIN wire : wire[i].path = TypePath(etype, i - 1)
          /\ (pc = "loop") => Len(wire) = page
          /\ ~Parseable(TypePath(etype, 0)) => wire = <<>>

\* an operation whose one call failed, and that made no second one
OneCallWitness ==
    /\ result.op = "EntityById"
    /\ Len(wire) = 1 /\ wire[1].reply.fail = "Do"
    /\ ~result.err.nil

IntegerKinds == {"int", "int64", "int32"}

\* C7 as stated: Add stores a string with tag "string", a native integer of
\* any width with tag "int", a float32 with tag "float", a float64 with tag
\* "int" and a typed Attribute verbatim, overwriting the entry under the name
\* and leaving every other name alone; any other type returns the
\* unsupported-type error and leaves the set unchanged.
AddReferenceAnyWidth ==
    (ret.op = "Add") =>
      IF ret.arg.kind \in {"string", "float32", "float64", "Attribute"} \cup IntegerKinds
      THEN /\ ret.err.nil
           /\ DOMAIN values = DOMAIN ret.before \cup {ret.name}
           /\ \A n \in DOMAIN ret.before \ {ret.name} : values[n] = ret.before[n]
           /\ (ret.arg.kind = "string") => values[ret.name] = Attribute("string", ret.arg.str)
           /\ (ret.arg.kind \in IntegerKinds) => values[ret.name].Type = "int"
           /\ (ret.arg.kind = "float32") => values[ret.name].Type = "float"
           /\ (ret.arg.kind = "float64") => values[ret.name].Type = "int"
           /\ (ret.arg.kind = "Attribute") => values[ret.name] = ret.arg.attr
      ELSE /\ ret.err = Errorf("unsupported implicit type", 0, "")
           /\ values = ret.before

\* C7 as amended: the integers Add stores with tag "int" are the int and the
\* int64; an integer of another width is rejected like any other type.
AddReference ==
    (ret.op = "Add") =>
      IF ret.arg.kind \in {"string", "int", "int64", "float32", "float64", "Attribute"}
      THEN /\ ret.err.nil
           /\ DOMAIN values = DOMAIN ret.before \cup {ret.name}
           /\ \A n \in DOMAIN ret.before \ {ret.name} : values[n] = ret.before[n]
           /\ (ret.arg.kind = "string") => values[ret.name] = Attribute("string", ret.arg.str)
           /\ (ret.arg.kind \in {"int", "int64"}) => values[ret.name].Type = "int"
           /\ (ret.arg.kind = "float32") => values[ret.name].Type = "float"
           /\ (ret.arg.kind = "float64") => values[ret.name].Type = "int"
           /\ (ret.arg.kind = "Attribute") => values[ret.name] = ret.arg.attr
      ELSE /\ ret.err = Errorf("unsupported implicit type", 0, "")
           /\ values = ret.before

\* a float64 stored with tag "int" over an earlier entry, another name present
AddWitness ==
    /\ ret.op = "Add" /\ ret.arg.kind = "float64"
    /\ DOMAIN ret.before = Names
    /\ ret.before[ret.name].Type = "string"
    /\ values[ret.name].Type = "int"

Getters == {"Get", "GetString", "GetInt", "GetFloat"}

\* C8: the presence flag of Get, GetString, GetInt and GetFloat is true
\* exactly when the name is stored; GetInt and GetFloat return the zero value
\* with presence true when the stored value does not parse, and the zero
\* value with presence false when the name is absent.
PresenceIndependentOfParsing ==
    (ret.op \in Getters) =>
      LET present == ret.name \in DOMAIN values
      IN  /\ ret.got.ok <=> present
          /\ (ret.op = "Get" /\ present) => ret.got.entry = values[ret.name]
          /\ (ret.op = "GetString" /\ present) => ret.got.str = values[ret.name].Value
          /\ (ret.op = "GetInt" /\ ~present) => ret.got.int = ZeroInt
          /\ (ret.op = "GetFloat" /\ ~present) => ret.got.flt = ZeroFloat
          /\ (ret.op = "GetInt" /\ present /\ ~ParseInt(values[ret.name].Value).ok) =>
                ret.got.int = ZeroInt
          /\ (ret.op = "GetFloat" /\ present /\ ~ParseFloat(values[ret.name].Value).ok) =>
                ret.got.flt = ZeroFloat
          /\ (ret.op = "GetInt" /\ present /\ values[ret.name].Value = NotANumber) =>
                ret.got = [int |-> ZeroInt, ok |-> TRUE]

\* GetInt on a stored attribute of type "int" and value "not-a-number"
UnparsableWitness ==
    /\ ret.op = "GetInt"
    /\ ret.name \in DOMAIN values
    /\ values[ret.name] = Attribute("int", NotANumber)
    /\ ret.got = [int |-> ZeroInt, ok |-> TRUE]

====
